---- MODULE Spec2Model ----
(***************************************************************************)
(* The Index client facade of pinecone/index.py: argument normalisation,   *)
(* request assembly, routing of keyword options, and post-processing of    *)
(* the query response.  The transport (VectorOperationsApi) is the         *)
(* environment: it is handed a request and answers with a response object, *)
(* a future-like handle (async_req) or a failure.                          *)
(***************************************************************************)
EXTENDS Integers, Sequences, FiniteSets, TLC

VARIABLES
    pc,              \* "idle": no call in progress; "returned": a call has just ended
    call,            \* the arguments of the call that has just ended
    sent,            \* the transport invocations made during that call, in order
    answered,        \* the object the transport handed back, as it was handed back
    response,        \* that same object as it is now (the facade may act on it in place)
    outcome,         \* what the call gave its caller: a returned value or a raised error
    default_filter,  \* the default-argument object of describe_index_stats' `filter`
    heap,            \* the configuration objects and their dicts, by address
    Config,          \* the ambient configuration (pinecone.Config)
    instances        \* the constructed facades: each one's configuration object

vars == <<pc, call, sent, answered, response, outcome, default_filter,
          heap, Config, instances>>

callVars == <<pc, call, sent, answered, response, outcome, default_filter>>
configVars == <<heap, Config, instances>>

(***************************************************************************)
(* Python values.  Every value is a pair <<kind, val>>: `kind` is the      *)
(* Python type and `val` its content.                                      *)
(***************************************************************************)
Kind(x) == x[1]
Val(x) == x[2]
None == <<"NoneType", "None">>
True == <<"bool", "True">>
False == <<"bool", "False">>
Num(n) == <<"int", n>>
Str(s) == <<"str", s>>
List(s) == <<"list", s>>
Tuple(s) == <<"tuple", s>>
\* a dict is a function from its keys (strings) to its values
Dict(f) == <<"dict", f>>

\* the empty mapping: a function with no key
EmptyMap == [k \in {} |-> None]
EmptyDict == Dict(EmptyMap)

\* Python's truth value of an object (bool(x)), as `or` and `if` use it
Truthy(x) ==
    CASE Kind(x) = "NoneType" -> FALSE
      [] Kind(x) = "bool" -> Val(x) = "True"
      [] Kind(x) = "int" -> Val(x) # 0
      [] Kind(x) = "str" -> Val(x) # ""
      [] Kind(x) \in {"list", "tuple"} -> Len(Val(x)) > 0
      [] Kind(x) = "dict" -> DOMAIN Val(x) # {}
      [] OTHER -> TRUE

\* `a or b`
Or(a, b) == IF Truthy(a) THEN a ELSE b

\* {**f, **g}: the entries of f, then those of g
Merge(f, g) ==
    [k \in (DOMAIN f) \cup (DOMAIN g) |-> IF k \in DOMAIN g THEN g[k] ELSE f[k]]

\* a dict comprehension's filter on the keys: {k: v for k, v in f.items() if k in keys}
Restrict(f, keys) == [k \in (DOMAIN f) \cap keys |-> f[k]]

_OPENAPI_ENDPOINT_PARAMS ==
    {"_return_http_data_only", "_preload_content", "_request_timeout",
     "_check_input_type", "_check_return_type", "_host_index", "async_req"}

\* {k: v for k, v in kwargs.items() if k in _OPENAPI_ENDPOINT_PARAMS}
EndpointKwargs(kwargs) == Restrict(kwargs, _OPENAPI_ENDPOINT_PARAMS)

\* a routing that does not take the transport-control options out of the request
RequestKwargs_unfiltered(kwargs) == kwargs

\* {k: v for k, v in kwargs.items() if k not in _OPENAPI_ENDPOINT_PARAMS}
RequestKwargs(kwargs) == Restrict(kwargs, (DOMAIN kwargs) \ _OPENAPI_ENDPOINT_PARAMS)

\* kwargs.pop('_check_type', False): the value popped, and what is left of kwargs
PopCheckType(kwargs) ==
    IF "_check_type" \in DOMAIN kwargs THEN kwargs["_check_type"] ELSE False
WithoutCheckType(kwargs) == Restrict(kwargs, (DOMAIN kwargs) \ {"_check_type"})

\* an argument assembly that tests `if val` instead of `if val is not None`
_parse_args_to_dict_truthy(args) ==
    LET kept == {i \in DOMAIN args : Truthy(args[i][2])}
    IN  [k \in {args[i][1] : i \in kept} |->
            args[CHOOSE i \in kept : args[i][1] = k][2]]

\* Index._parse_args_to_dict: args is a sequence of <<name, value>> pairs
_parse_args_to_dict(args) ==
    LET kept == {i \in DOMAIN args : args[i][2] # None}
    IN  [k \in {args[i][1] : i \in kept} |->
            args[CHOOSE i \in kept : /\ args[i][1] = k
                                     /\ \A j \in kept : args[j][1] = k => j <= i][2]]

\* pinecone.core.utils.fix_tuple_length(t, n): exactly n positions, padded with None
fix_tuple_length(t, n) ==
    [i \in 1..n |-> IF i <= Len(t) THEN t[i] ELSE None]

\* the model classes of pinecone.core.client.models, built with _check_type=False:
\* the keyword arguments given are the fields stored
Vector(id, values, metadata) ==
    <<"Vector", [id |-> id, values |-> values, metadata |-> metadata]>>
QueryVector(fields) == <<"QueryVector", fields>>

\* an error raised inside the facade
Error(name) == <<"error", name>>
IsError(x) == Kind(x) = "error"

\* what a call gives its caller
Returned(v) == [how |-> "return", value |-> v]
Raised(e) == [how |-> "raise", value |-> e]

\* no object: before any call, and where a call made or received none
Nothing == <<"nothing", "nothing">>
\* the value of a call that returns the very object the transport handed back
TheResponse == <<"ref", "response">>

\* list(map(f, items)) for the per-item results r of f: the first error raised
\* ends the map, otherwise the list of the results
ListOfMap(r) ==
    LET bad == {i \in DOMAIN r : IsError(r[i])}
    IN  IF bad # {}
        THEN r[CHOOSE i \in bad : \A j \in bad : i <= j]
        ELSE List(r)

(***************************************************************************)
(* The transport.  _vector_api.<op>(request, **kwargs) is handed a request *)
(* record and the transport-control options.  With a true async_req it     *)
(* hands back a future-like handle (multiprocessing's ApplyResult), which  *)
(* has no _data_store; otherwise it hands back a response record or fails. *)
(***************************************************************************)
Request(type, fields) == <<type, fields>>
Invocation(api, request, kwargs) == [api |-> api, request |-> request, kwargs |-> kwargs]

Handle == <<"ApplyResult", "pending">>
TransportFailure == Error("ApiException")
ResponseRecord(type, store) == <<type, store>>

IsAsync(kwargs) == "async_req" \in DOMAIN kwargs /\ Truthy(kwargs["async_req"])

\* the fields a QueryResponse carries in its _data_store: usage, and any of the
\* fields of the unary shape (matches) and of the multi-query shape (results)
QueryShapeFields == {"matches", "results", "namespace"}
FieldValue(k) == Str(k)
ResponseTypeOf(api) ==
    CASE api = "upsert" -> "UpsertResponse"
      [] api = "fetch" -> "FetchResponse"
      [] api = "query" -> "QueryResponse"
      [] api = "describe_index_stats" -> "DescribeIndexStatsResponse"
      [] OTHER -> "dict"
ResponseStores(api) ==
    IF api = "query"
    THEN {[k \in D \cup {"usage"} |-> FieldValue(k)] : D \in SUBSET QueryShapeFields}
    ELSE {EmptyMap}

\* everything the transport may hand back for one invocation
TransportAnswers(api, kwargs) ==
    IF IsAsync(kwargs)
    THEN {Handle}
    ELSE {ResponseRecord(ResponseTypeOf(api), st) : st \in ResponseStores(api)}
         \cup {TransportFailure}

\* the end of a call that returns what the transport handed back, verbatim
\* (upsert, delete, fetch, update, describe_index_stats)
Forward(inv, ans) ==
    [sent |-> <<inv>>, answered |-> ans, response |-> ans,
     outcome |-> IF IsError(ans) THEN Raised(ans) ELSE Returned(TheResponse)]

\* the end of a call that raised before it reached the transport
Failed(e) ==
    [sent |-> <<>>, answered |-> Nothing, response |-> Nothing, outcome |-> Raised(e)]

(***************************************************************************)
(* Index.upsert                                                            *)
(***************************************************************************)
\* a transform that passes the tuple's metadata on without `or {}`
_vector_transform_no_default(item) ==
    IF Kind(item) = "Vector" THEN item
    ELSE IF Kind(item) = "tuple"
         THEN LET t == fix_tuple_length(Val(item), 3)
              IN  Vector(t[1], t[2], t[3])
         ELSE Error("ValueError")

\* a transform without the final raise: what it cannot interpret it passes on
_vector_transform_no_raise(item) ==
    IF Kind(item) = "tuple"
    THEN LET t == fix_tuple_length(Val(item), 3)
         IN  Vector(t[1], t[2], Or(t[3], EmptyDict))
    ELSE item

_vector_transform(item) ==
    IF Kind(item) = "Vector" THEN item
    ELSE IF Kind(item) = "tuple"
         THEN LET t == fix_tuple_length(Val(item), 3)
              IN  Vector(t[1], t[2], Or(t[3], EmptyDict))
         ELSE Error("ValueError")

UpsertRequest(vectors, args_dict, _check_type, kwargs) ==
    Request("UpsertRequest",
            Merge(Merge(Merge([vectors |-> vectors], args_dict),
                        [_check_type |-> _check_type]),
                  RequestKwargs(kwargs)))

\* the whole of upsert(vectors, namespace, **kwargs), the transport answering ans
upsert_call(vectors, namespace, kwargs0, ans) ==
    LET _check_type == PopCheckType(kwargs0)
        kwargs == WithoutCheckType(kwargs0)
        args_dict == _parse_args_to_dict(<< <<"namespace", namespace>> >>)
        mapped == ListOfMap([i \in DOMAIN Val(vectors) |-> _vector_transform(Val(vectors)[i])])
    IN  IF IsError(mapped)
        THEN Failed(mapped)
        ELSE Forward(Invocation("upsert",
                                UpsertRequest(mapped, args_dict, _check_type, kwargs),
                                EndpointKwargs(kwargs)),
                     ans)

(***************************************************************************)
(* Index.delete                                                            *)
(***************************************************************************)
\* {k: v for k, v in kwargs.items() if k not in _OPENAPI_ENDPOINT_PARAMS and v is not None}
DeleteRequestKwargs(kwargs) ==
    Restrict(kwargs, {k \in (DOMAIN kwargs) \ _OPENAPI_ENDPOINT_PARAMS : kwargs[k] # None})

DeleteRequest(args_dict, kwargs, _check_type) ==
    Request("DeleteRequest",
            Merge(Merge(args_dict, DeleteRequestKwargs(kwargs)),
                  [_check_type |-> _check_type]))

delete_call(ids, delete_all, namespace, filter, kwargs0, ans) ==
    LET _check_type == PopCheckType(kwargs0)
        kwargs == WithoutCheckType(kwargs0)
        args_dict == _parse_args_to_dict(<< <<"ids", ids>>, <<"delete_all", delete_all>>,
                                            <<"namespace", namespace>>, <<"filter", filter>> >>)
    IN  Forward(Invocation("delete", DeleteRequest(args_dict, kwargs, _check_type),
                           EndpointKwargs(kwargs)),
                ans)

(***************************************************************************)
(* Index.fetch: no request record, every argument goes to the transport    *)
(***************************************************************************)
fetch_call(ids, namespace, kwargs, ans) ==
    LET args_dict == _parse_args_to_dict(<< <<"namespace", namespace>> >>)
    IN  Forward(Invocation("fetch", Nothing, Merge(Merge([ids |-> ids], args_dict), kwargs)),
                ans)

(***************************************************************************)
(* Index.query                                                             *)
(***************************************************************************)
\* collections.abc.Iterable: the values that have __iter__
IsIterable(item) == Kind(item) \in {"list", "tuple", "str", "dict"}

_query_transform(item) ==
    IF Kind(item) = "QueryVector" THEN item
    ELSE IF Kind(item) = "tuple"
         THEN LET t == fix_tuple_length(Val(item), 2)
              IN  QueryVector([values |-> t[1], filter |-> t[2]])
         ELSE IF IsIterable(item)
              THEN QueryVector([values |-> item])
              ELSE Error("ValueError")

QueryRequest(args_dict, _check_type, kwargs) ==
    Request("QueryRequest",
            Merge(Merge(args_dict, [_check_type |-> _check_type]), RequestKwargs(kwargs)))

\* the object with its _data_store replaced
WithStore(obj, store) == <<Kind(obj), store>>

\* response._data_store.pop(key, None)
Pop(store, key) == Restrict(store, (DOMAIN store) \ {key})

\* whether the object has a _data_store attribute (the model classes do)
HasDataStore(obj) == Kind(obj) \notin {"ApplyResult", "nothing", "error"}

\* a post-processing that pops without a default, `_data_store.pop(key)`: a
\* field that is absent raises KeyError, after the pops made before it
parse_query_response_pop_no_default(obj, unary_query) ==
    IF ~HasDataStore(obj)
    THEN [response |-> obj, outcome |-> Raised(Error("AttributeError"))]
    ELSE IF Truthy(unary_query)
         THEN IF "results" \in DOMAIN Val(obj)
              THEN [response |-> WithStore(obj, Pop(Val(obj), "results")),
                    outcome |-> Returned(TheResponse)]
              ELSE [response |-> obj, outcome |-> Raised(Error("KeyError"))]
         ELSE IF "matches" \notin DOMAIN Val(obj)
              THEN [response |-> obj, outcome |-> Raised(Error("KeyError"))]
              ELSE IF "namespace" \notin DOMAIN Val(obj)
                   THEN [response |-> WithStore(obj, Pop(Val(obj), "matches")),
                         outcome |-> Raised(Error("KeyError"))]
                   ELSE [response |-> WithStore(obj, Pop(Pop(Val(obj), "matches"),
                                                         "namespace")),
                         outcome |-> Returned(TheResponse)]

\* parse_query_response(response, unary_query): the object after the call (it is
\* changed in place) and the value returned; a missing _data_store raises
parse_query_response(obj, unary_query) ==
    IF ~HasDataStore(obj)
    THEN [response |-> obj, outcome |-> Raised(Error("AttributeError"))]
    ELSE IF Truthy(unary_query)
         THEN [response |-> WithStore(obj, Pop(Val(obj), "results")),
               outcome |-> Returned(TheResponse)]
         ELSE [response |-> WithStore(obj, Pop(Pop(Val(obj), "matches"), "namespace")),
               outcome |-> Returned(TheResponse)]

\* the second argument of parse_query_response: `vector is not None or id`
UnaryQuery(vector, id) == IF vector # None THEN True ELSE id

query_call(vector, id, queries0, top_k, namespace, filter, include_values, include_metadata, kwargs0, ans) ==
    LET _check_type == PopCheckType(kwargs0)
        kwargs == WithoutCheckType(kwargs0)
        queries == IF queries0 # None
                   THEN ListOfMap([i \in DOMAIN Val(queries0) |->
                                       _query_transform(Val(queries0)[i])])
                   ELSE None
        args_dict == _parse_args_to_dict(
                        << <<"vector", vector>>, <<"id", id>>, <<"queries", queries>>,
                           <<"top_k", top_k>>, <<"namespace", namespace>>,
                           <<"filter", filter>>, <<"include_values", include_values>>,
                           <<"include_metadata", include_metadata>> >>)
        inv == Invocation("query", QueryRequest(args_dict, _check_type, kwargs),
                          EndpointKwargs(kwargs))
        parsed == parse_query_response(ans, UnaryQuery(vector, id))
    IN  IF IsError(queries)
        THEN Failed(queries)
        ELSE IF IsError(ans)
             THEN Forward(inv, ans)
             ELSE [sent |-> <<inv>>, answered |-> ans,
                   response |-> parsed.response, outcome |-> parsed.outcome]

(***************************************************************************)
(* Index.update                                                            *)
(***************************************************************************)
UpdateRequest(id, args_dict, _check_type, kwargs) ==
    Request("UpdateRequest",
            Merge(Merge(Merge([id |-> id], args_dict), [_check_type |-> _check_type]),
                  RequestKwargs(kwargs)))

update_call(id, values, set_metadata, namespace, kwargs0, ans) ==
    LET _check_type == PopCheckType(kwargs0)
        kwargs == WithoutCheckType(kwargs0)
        args_dict == _parse_args_to_dict(<< <<"values", values>>,
                                            <<"set_metadata", set_metadata>>,
                                            <<"namespace", namespace>> >>)
    IN  Forward(Invocation("update", UpdateRequest(id, args_dict, _check_type, kwargs),
                           EndpointKwargs(kwargs)),
                ans)

(***************************************************************************)
(* Index.describe_index_stats                                              *)
(***************************************************************************)
\* a request assembly that leaves a falsy filter out, as for an unset field
DescribeIndexStatsRequest_omit_falsy(filter, kwargs, _check_type) ==
    Request("DescribeIndexStatsRequest",
            Merge(Merge(IF Truthy(filter) THEN [filter |-> filter] ELSE EmptyMap,
                        RequestKwargs(kwargs)),
                  [_check_type |-> _check_type]))

DescribeIndexStatsRequest(filter, kwargs, _check_type) ==
    Request("DescribeIndexStatsRequest",
            Merge(Merge([filter |-> filter], RequestKwargs(kwargs)),
                  [_check_type |-> _check_type]))

\* the parameter `filter` of a call: the argument given, else the default object
FilterParameter(args, dflt) == IF "filter" \in DOMAIN args THEN args["filter"] ELSE dflt

describe_index_stats_call(filter, kwargs0, ans) ==
    LET _check_type == PopCheckType(kwargs0)
        kwargs == WithoutCheckType(kwargs0)
    IN  Forward(Invocation("describe_index_stats",
                           DescribeIndexStatsRequest(filter, kwargs, _check_type),
                           EndpointKwargs(kwargs)),
                ans)

(***************************************************************************)
(* The calls a program makes: the arguments are drawn from small sets that *)
(* hold, for every parameter, the unset value None, falsy values and       *)
(* ordinary values.                                                        *)
(***************************************************************************)
MaxVectors == 2
MaxQueries == 1

SeqsUpTo(S, n) == UNION {[1..k -> S] : k \in 0..n}

SomeValues == List(<<Num(1)>>)
SomeFilter == Dict([genre |-> Str("x")])

\* **kwargs: _check_type, transport-control options and other request fields
KwNames == {"_check_type", "async_req", "sparse_vector"}
KwValuesOf(k) ==
    CASE k = "_check_type" -> {False}
      [] k = "async_req" -> {True}
      [] OTHER -> {None, EmptyDict}
KwargsSet ==
    UNION {{f \in [D -> UNION {KwValuesOf(k) : k \in D}] :
               \A k \in D : f[k] \in KwValuesOf(k)} : D \in SUBSET KwNames}

Namespaces == {None, Str("ns")}
Filters == {None, EmptyDict, SomeFilter}

UpsertItems ==
    {Vector(Str("v"), SomeValues, SomeFilter),
     Tuple(<<Str("a"), SomeValues>>),
     Tuple(<<Str("b"), SomeValues, SomeFilter>>),
     Tuple(<<Str("c"), SomeValues, EmptyDict>>),
     Tuple(<<Str("d"), SomeValues, None>>),
     List(<<Str("e"), SomeValues>>),
     Str("f")}
UpsertVectorLists == {List(s) : s \in SeqsUpTo(UpsertItems, MaxVectors)}

IdLists == {None, List(<<>>), List(<<Str("a"), Str("b")>>)}
DeleteAlls == {None, False, True}

QueryVectors == {None, List(<<>>), SomeValues}
QueryIds == {None, Str(""), Str("a")}
QueryItems ==
    {QueryVector([values |-> SomeValues]),
     Tuple(<<SomeValues, SomeFilter>>),
     SomeValues,
     Str("ab"),
     SomeFilter,
     Num(7)}
QueryLists == {None} \cup {List(s) : s \in SeqsUpTo(QueryItems, MaxQueries)}
TopKs == {None, Num(0)}
IncludeFlags == {None, False}

NoCall == [op |-> "none"]
Call(op, args, kwargs) == [op |-> op, args |-> args, kwargs |-> kwargs]

\* a call ends: its result r is what the caller and the transport have seen
Ends(c, r) ==
    /\ pc' = "returned"
    /\ call' = c
    /\ sent' = r.sent
    /\ answered' = r.answered
    /\ response' = r.response
    /\ outcome' = r.outcome

upsert ==
    /\ pc = "idle"
    /\ \E vectors \in UpsertVectorLists, namespace \in Namespaces,
          kwargs \in KwargsSet :
         \E ans \in TransportAnswers("upsert", EndpointKwargs(kwargs)) :
            Ends(Call("upsert", [vectors |-> vectors, namespace |-> namespace], kwargs),
                 upsert_call(vectors, namespace, kwargs, ans))
    /\ UNCHANGED <<default_filter, configVars>>

delete ==
    /\ pc = "idle"
    /\ \E ids \in IdLists, delete_all \in DeleteAlls,
          namespace \in Namespaces, filter \in Filters, kwargs \in KwargsSet :
         \E ans \in TransportAnswers("delete", EndpointKwargs(kwargs)) :
            Ends(Call("delete",
                      [ids |-> ids, delete_all |-> delete_all, namespace |-> namespace,
                       filter |-> filter], kwargs),
                 delete_call(ids, delete_all, namespace, filter, kwargs, ans))
    /\ UNCHANGED <<default_filter, configVars>>

fetch ==
    /\ pc = "idle"
    /\ \E ids \in IdLists \ {None}, namespace \in Namespaces,
          kwargs \in KwargsSet :
         \E ans \in TransportAnswers("fetch", kwargs) :
            Ends(Call("fetch", [ids |-> ids, namespace |-> namespace], kwargs),
                 fetch_call(ids, namespace, kwargs, ans))
    /\ UNCHANGED <<default_filter, configVars>>

query ==
    /\ pc = "idle"
    /\ \E vector \in QueryVectors, id \in QueryIds,
          queries \in QueryLists, top_k \in TopKs, namespace \in Namespaces,
          filter \in Filters \ {SomeFilter}, include_values \in IncludeFlags,
          include_metadata \in IncludeFlags, kwargs \in KwargsSet :
         \E ans \in TransportAnswers("query", EndpointKwargs(kwargs)) :
            Ends(Call("query",
                      [vector |-> vector, id |-> id, queries |-> queries, top_k |-> top_k,
                       namespace |-> namespace, filter |-> filter,
                       include_values |-> include_values,
                       include_metadata |-> include_metadata], kwargs),
                 query_call(vector, id, queries, top_k, namespace, filter, include_values,
                            include_metadata, kwargs, ans))
    /\ UNCHANGED <<default_filter, configVars>>

update ==
    /\ pc = "idle"
    /\ \E id \in QueryIds \ {None}, values \in QueryVectors,
          set_metadata \in Filters, namespace \in Namespaces, kwargs \in KwargsSet :
         \E ans \in TransportAnswers("update", EndpointKwargs(kwargs)) :
            Ends(Call("update",
                      [id |-> id, values |-> values, set_metadata |-> set_metadata,
                       namespace |-> namespace], kwargs),
                 update_call(id, values, set_metadata, namespace, kwargs, ans))
    /\ UNCHANGED <<default_filter, configVars>>

\* args holds `filter` when the caller gave it; without it the parameter is
\* bound to the function's default object, which the call leaves as it was
describe_index_stats ==
    /\ pc = "idle"
    /\ \E kwargs \in KwargsSet,
          args \in {EmptyMap} \cup {[filter |-> f] : f \in Filters} :
         \E ans \in TransportAnswers("describe_index_stats", EndpointKwargs(kwargs)) :
            Ends(Call("describe_index_stats", args, kwargs),
                 describe_index_stats_call(FilterParameter(args, default_filter), kwargs, ans))
    /\ UNCHANGED <<default_filter, configVars>>

\* the caller takes the result; nothing of the call is kept by the facade
Return ==
    /\ pc = "returned"
    /\ pc' = "idle"
    /\ call' = NoCall
    /\ sent' = <<>>
    /\ answered' = Nothing
    /\ response' = Nothing
    /\ outcome' = Nothing
    /\ UNCHANGED <<default_filter, configVars>>

(***************************************************************************)
(* Construction.  The configuration objects live on a heap: an address     *)
(* holds a configuration object (its attributes api_key and                *)
(* server_variables, each None or a reference to a dict) or a dict.  Two   *)
(* references to one address are the same object.                          *)
(***************************************************************************)
NumInstances == 2

Ref(a) == <<"ref", a>>
\* the dict a reference points to, as a Python value
Deref(h, r) == IF r = None THEN None ELSE Dict(h[Val(r)])

\* copy.copy instead of copy.deepcopy: a new configuration object that shares
\* its dicts with the original
copy_shallow(h, r) ==
    LET h1 == Append(h, h[Val(r)])
    IN  [heap |-> h1, ref |-> Ref(Len(h1))]

\* copy.deepcopy of a configuration object: a new object whose dicts are new
\* dicts with the same entries (the entries are strings, which are immutable)
deepcopy(h, r) ==
    LET o == h[Val(r)]
        h1 == IF o.api_key = None THEN h ELSE Append(h, h[Val(o.api_key)])
        ak == IF o.api_key = None THEN None ELSE Ref(Len(h1))
        h2 == IF o.server_variables = None THEN h1 ELSE Append(h1, h[Val(o.server_variables)])
        sv == IF o.server_variables = None THEN None ELSE Ref(Len(h2))
        h3 == Append(h2, [api_key |-> ak, server_variables |-> sv])
    IN  [heap |-> h3, ref |-> Ref(Len(h3))]

\* `attr = attr or {}` on the object at address a: a falsy attribute (None, or
\* an empty dict) is rebound to a new empty dict
OrEmptyDict(h, a, attr) ==
    IF Truthy(Deref(h, h[a][attr]))
    THEN h
    ELSE LET h1 == Append(h, EmptyMap)
         IN  [h1 EXCEPT ![a][attr] = Ref(Len(h1))]

\* d[key] = value on the dict at address a
SetItem(h, a, key, value) ==
    [h EXCEPT ![a] = Merge(h[a], [k \in {key} |-> value])]

\* d.get(key, default)
Get(d, key, default) == IF key \in DOMAIN d THEN d[key] ELSE default

\* Index.__init__(index_name) up to the call of ApiClient.__init__: the heap
\* after it, and the reference to the configuration the facade is built with
Index__init__(h, cfg, index_name) ==
    LET c == deepcopy(h, cfg.OPENAPI_CONFIG)
        a == Val(c.ref)
        h1 == OrEmptyDict(c.heap, a, "api_key")
        ak == Val(h1[a].api_key)
        h2 == SetItem(h1, ak, "ApiKeyAuth", Get(h1[ak], "ApiKeyAuth", cfg.API_KEY))
        h3 == OrEmptyDict(h2, a, "server_variables")
        h4 == Append(h3, Merge([environment |-> cfg.ENVIRONMENT,
                                index_name |-> index_name,
                                project_name |-> cfg.PROJECT_NAME],
                               h3[Val(h3[a].server_variables)]))
        h5 == [h4 EXCEPT ![a].server_variables = Ref(Len(h4))]
    IN  [heap |-> h5, ref |-> c.ref]

\* what a configuration object holds, its dicts read through their references
View(h, r) ==
    [api_key |-> Deref(h, h[Val(r)].api_key),
     server_variables |-> Deref(h, h[Val(r)].server_variables)]
\* the ambient configuration as a program reads it
AmbientView ==
    [OPENAPI_CONFIG |-> View(heap, Config.OPENAPI_CONFIG), API_KEY |-> Config.API_KEY,
     ENVIRONMENT |-> Config.ENVIRONMENT, PROJECT_NAME |-> Config.PROJECT_NAME]
\* the configuration snapshot of the i-th facade
Snapshot(i) == View(heap, instances[i])

ConfigStrings == {Str("a"), Str("b")}
IndexNames == {Str("idx")}
ConfigAttrs == {"api_key", "server_variables"}
KeysOf(attr) == IF attr = "api_key" THEN {"ApiKeyAuth"} ELSE {"environment"}

\* Index(index_name)
Index ==
    /\ Len(instances) < NumInstances
    /\ \E index_name \in IndexNames :
         LET r == Index__init__(heap, Config, index_name)
         IN  /\ heap' = r.heap
             /\ instances' = Append(instances, r.ref)
    /\ UNCHANGED <<Config, callVars>>

\* the program rebinds a field of the ambient configuration (pinecone.init)
SetAmbientField ==
    /\ \E v \in ConfigStrings :
         \/ Config' = [Config EXCEPT !.API_KEY = v]
         \/ Config' = [Config EXCEPT !.ENVIRONMENT = v]
    /\ UNCHANGED <<heap, instances, callVars>>

\* the program writes an entry of a dict of the ambient OPENAPI_CONFIG
SetAmbientEntry ==
    /\ \E attr \in ConfigAttrs, v \in ConfigStrings :
         LET r == heap[Val(Config.OPENAPI_CONFIG)][attr]
         IN  /\ r # None
             /\ \E key \in KeysOf(attr) : heap' = SetItem(heap, Val(r), key, v)
    /\ UNCHANGED <<Config, instances, callVars>>

\* the program writes an entry of a dict of a facade's own configuration
SetInstanceEntry ==
    /\ \E i \in DOMAIN instances, attr \in ConfigAttrs, v \in ConfigStrings :
         \E key \in KeysOf(attr) :
            heap' = SetItem(heap, Val(heap[Val(instances[i])][attr]), key, v)
    /\ UNCHANGED <<Config, instances, callVars>>

\* the ambient configuration a program may start from: each dict of
\* OPENAPI_CONFIG is None, empty, or holds an entry
AmbientDicts(attr) ==
    {None, EmptyDict} \cup {Dict([k \in {key} |-> Str("a")]) : key \in KeysOf(attr)}
AmbientHeap(ak, sv) ==
    LET h1 == IF ak = None THEN <<>> ELSE <<Val(ak)>>
        h2 == IF sv = None THEN h1 ELSE Append(h1, Val(sv))
    IN  Append(h2, [api_key |-> IF ak = None THEN None ELSE Ref(1),
                    server_variables |-> IF sv = None THEN None ELSE Ref(Len(h2))])
AmbientConfig(h) ==
    [OPENAPI_CONFIG |-> Ref(Len(h)), API_KEY |-> Str("a"),
     ENVIRONMENT |-> Str("a"), PROJECT_NAME |-> Str("p")]

InitCalls ==
    /\ pc = "idle"
    /\ call = NoCall
    /\ sent = <<>>
    /\ answered = Nothing
    /\ response = Nothing
    /\ outcome = Nothing
    /\ default_filter = EmptyDict

InitConfig ==
    /\ InitCalls
    /\ \E ak \in AmbientDicts("api_key"), sv \in AmbientDicts("server_variables") :
         /\ heap = AmbientHeap(ak, sv)
         /\ Config = AmbientConfig(heap)
    /\ instances = <<>>

\* the facade's operations, on a facade already constructed
Init ==
    /\ InitCalls
    /\ heap = AmbientHeap(None, None)
    /\ Config = AmbientConfig(heap)
    /\ instances = <<>>

Next ==
    \/ upsert
    \/ delete
    \/ fetch
    \/ query
    \/ update
    \/ describe_index_stats
    \/ Return

Spec == Init /\ [][Next]_vars

\* construction and the later changes of the configurations
NextConfig ==
    \/ Index
    \/ SetAmbientField
    \/ SetAmbientEntry
    \/ SetInstanceEntry

SpecConfig == InitConfig /\ [][NextConfig]_vars

(***************************************************************************)
(* Properties                                                              *)
(***************************************************************************)
\* the call that has just ended reached the transport: its one request record
\* and the options the transport call was given
Reached == pc = "returned" /\ Len(sent) = 1
TheRequest == Val(sent[1].request)
TheTransportKwargs == sent[1].kwargs
Ended(op) == pc = "returned" /\ call.op = op

\* C1 as claimed: a Query call the transport answers with a response record returns
\* that record without 'results' when vector or id is non-null (whatever the
\* non-null value), and without 'matches' when neither is and queries was given.
C1_UnaryResponseHasNoResults ==
    (Ended("query") /\ Len(sent) = 1 /\ Kind(answered) = "QueryResponse") =>
        /\ outcome = Returned(TheResponse)
        /\ (call.args.vector # None \/ call.args.id # None) =>
               "results" \notin DOMAIN Val(response)
        /\ (call.args.vector = None /\ call.args.id = None /\ call.args.queries # None) =>
               "matches" \notin DOMAIN Val(response)

\* the optional business fields of an operation's request
OptionalFields(op) ==
    CASE op = "delete" -> {"ids", "delete_all", "namespace", "filter"}
      [] op = "update" -> {"values", "set_metadata", "namespace"}
      [] op = "query" -> {"vector", "id", "queries", "top_k", "namespace", "filter",
                          "include_values", "include_metadata"}
      [] op = "describe_index_stats" -> {"filter"}
      [] OTHER -> {}

\* the value a request carries for an argument: the argument itself, and for
\* `queries` the list of its elements as QueryVectors
Carried(f, v) ==
    IF f = "queries" /\ v # None
    THEN ListOfMap([i \in DOMAIN Val(v) |-> _query_transform(Val(v)[i])])
    ELSE v

\* C2 as claimed: in Delete, Update, Query and DescribeIndexStats an optional field
\* whose argument is None is no key of the request, and one given a value (falsy
\* or not) is a key with that value; so describe_index_stats(filter=None) sends
\* no `filter` key.
C2_UnsetFieldsAreOmitted ==
    (Reached /\ call.op \in {"delete", "update", "query", "describe_index_stats"}) =>
        \A f \in OptionalFields(call.op) \cap DOMAIN call.args :
            IF call.args[f] = None
            THEN f \notin DOMAIN TheRequest
            ELSE f \in DOMAIN TheRequest /\ TheRequest[f] = Carried(f, call.args[f])

\* C3 as claimed: every 2- or 3-tuple given to Upsert becomes, at its position, the
\* Vector of the tuple's positions, the metadata being the third position, or an
\* empty mapping when the tuple has 2 positions; a Vector is passed unchanged.
C3_TupleBecomesVectorOfItsPositions ==
    (Ended("upsert") /\ Len(sent) = 1) =>
        /\ Len(Val(TheRequest.vectors)) = Len(Val(call.args.vectors))
        /\ \A i \in DOMAIN Val(call.args.vectors) :
              LET item == Val(call.args.vectors)[i]
                  got == Val(TheRequest.vectors)[i]
              IN  IF Kind(item) = "tuple"
                  THEN got = Vector(Val(item)[1], Val(item)[2],
                                    IF Len(Val(item)) = 2 THEN EmptyDict ELSE Val(item)[3])
                  ELSE got = item

\* C3 amended: as C3, but the metadata is the third position only when that is a
\* non-empty mapping (a true value); it is an empty mapping when the tuple has 2
\* positions or its third position is None or empty.
C3_TupleMetadataDefaultsWhenFalsy ==
    (Ended("upsert") /\ Len(sent) = 1) =>
        /\ Len(Val(TheRequest.vectors)) = Len(Val(call.args.vectors))
        /\ \A i \in DOMAIN Val(call.args.vectors) :
              LET item == Val(call.args.vectors)[i]
                  got == Val(TheRequest.vectors)[i]
              IN  IF Kind(item) = "tuple"
                  THEN got = Vector(Val(item)[1], Val(item)[2],
                                    IF Len(Val(item)) = 3 /\ Truthy(Val(item)[3])
                                    THEN Val(item)[3] ELSE EmptyDict)
                  ELSE got = item

\* an upsert reached the transport with a 3-tuple whose metadata is None next to
\* a structured Vector
C3_Witness ==
    /\ Ended("upsert") /\ Len(sent) = 1
    /\ \E i, j \in DOMAIN Val(call.args.vectors) :
          /\ Kind(Val(call.args.vectors)[i]) = "tuple"
          /\ Len(Val(Val(call.args.vectors)[i])) = 3
          /\ Val(Val(call.args.vectors)[i])[3] = None
          /\ Val(Val(TheRequest.vectors)[i]).metadata = EmptyDict
          /\ Kind(Val(call.args.vectors)[j]) = "Vector"

\* C4: an Upsert whose sequence holds, at any position, an element that is neither
\* a Vector nor a tuple raises ValueError (the InvalidArgument error) and never
\* invokes the transport.
C4_InvalidVectorFailsBeforeTransport ==
    (Ended("upsert") /\ \E i \in DOMAIN Val(call.args.vectors) :
                            Kind(Val(call.args.vectors)[i]) \notin {"Vector", "tuple"}) =>
        /\ outcome = Raised(Error("ValueError"))
        /\ sent = <<>>

\* an upsert failed whose invalid element comes after a valid one
C4_Witness ==
    /\ Ended("upsert")
    /\ Len(Val(call.args.vectors)) = 2
    /\ Kind(Val(call.args.vectors)[1]) = "tuple"
    /\ Kind(Val(call.args.vectors)[2]) = "str"
    /\ outcome = Raised(Error("ValueError"))
    /\ sent = <<>>

\* C5 as claimed: whenever async_req makes the transport hand back a handle, the
\* operation (any of the six) returns that handle and raises nothing.
C5_AsyncReturnsTheHandle ==
    (Reached /\ answered = Handle) =>
        /\ outcome = Returned(TheResponse)
        /\ response = Handle

\* C6: a DescribeIndexStats call without a filter argument, after any calls,
\* sends a request whose `filter` is an empty mapping: never absent, never what
\* an earlier call passed.
C6_DefaultFilterIsEmptyMapping ==
    /\ default_filter = EmptyDict
    /\ (Ended("describe_index_stats") /\ "filter" \notin DOMAIN call.args) =>
          /\ Len(sent) = 1
          /\ "filter" \in DOMAIN TheRequest
          /\ TheRequest["filter"] = EmptyDict

\* a describe_index_stats call without a filter argument has reached the transport
C6_Witness ==
    /\ Ended("describe_index_stats")
    /\ call.args = EmptyMap
    /\ Len(sent) = 1
    /\ sent[1].api = "describe_index_stats"
    /\ TheRequest["filter"] = EmptyDict

\* C7: once a facade is constructed its configuration snapshot changes only when
\* that facade's own configuration is written: a step that changes the ambient
\* configuration or another facade's snapshot leaves it as it was, and a step
\* that constructs a facade changes neither the ambient configuration nor the
\* snapshot of any facade constructed before.
C7_SnapshotsAreIsolated ==
    [][/\ \A i \in DOMAIN instances :
            Snapshot(i)' # Snapshot(i) =>
                /\ AmbientView' = AmbientView
                /\ \A j \in (DOMAIN instances) \ {i} : Snapshot(j)' = Snapshot(j)
       /\ Len(instances') > Len(instances) =>
            /\ AmbientView' = AmbientView
            /\ \A i \in DOMAIN instances : Snapshot(i)' = Snapshot(i)]_vars

\* two facades exist, and the ambient credential dict, the first facade's and the
\* second facade's hold different keys or values: writes made after construction
\* are seen by one holder only
C7_Witness ==
    /\ Len(instances) = 2
    /\ AmbientView.OPENAPI_CONFIG.api_key # None
    /\ "ApiKeyAuth" \in DOMAIN Val(AmbientView.OPENAPI_CONFIG.api_key)
    /\ Val(AmbientView.OPENAPI_CONFIG.api_key)["ApiKeyAuth"] = Str("b")
    /\ Val(Snapshot(1).api_key)["ApiKeyAuth"] = Str("a")
    /\ Val(Snapshot(2).api_key)["ApiKeyAuth"] = Str("b")
    /\ Val(Snapshot(1).server_variables)["environment"]
         # Val(Snapshot(2).server_variables)["environment"]

\* whether an element of `queries` is one of the three forms Query accepts
IsNumberList(item) ==
    Kind(item) = "list" /\ \A i \in DOMAIN Val(item) : Kind(Val(item)[i]) = "int"
IsAcceptedQuery(item) ==
    \/ Kind(item) = "QueryVector"
    \/ Kind(item) = "tuple" /\ Len(Val(item)) = 2
    \/ IsNumberList(item)

\* C8 as claimed: in a Query with a `queries` list a QueryVector is kept, a
\* 2-tuple becomes QueryVector(values, filter), a sequence of numbers becomes
\* QueryVector(values), and any other element (a string, a mapping) makes the
\* call raise ValueError before the transport is invoked.
C8_OtherQueryElementsAreRejected ==
    (Ended("query") /\ call.args.queries # None) =>
        LET items == Val(call.args.queries)
        IN  IF \E i \in DOMAIN items : ~IsAcceptedQuery(items[i])
            THEN outcome = Raised(Error("ValueError")) /\ sent = <<>>
            ELSE /\ Len(sent) = 1
                 /\ Len(Val(TheRequest.queries)) = Len(items)
                 /\ \A i \in DOMAIN items :
                       Val(TheRequest.queries)[i] =
                          CASE Kind(items[i]) = "QueryVector" -> items[i]
                            [] Kind(items[i]) = "tuple" ->
                                 QueryVector([values |-> Val(items[i])[1],
                                              filter |-> Val(items[i])[2]])
                            [] OTHER -> QueryVector([values |-> items[i]])

\* the operations that build a request record and route **kwargs
RoutingOps == {"upsert", "delete", "query", "update", "describe_index_stats"}

\* an extra keyword option goes to exactly one place, unchanged
RoutedToTransport(k) ==
    /\ k \in DOMAIN TheTransportKwargs /\ TheTransportKwargs[k] = call.kwargs[k]
    /\ k \notin DOMAIN TheRequest
RoutedToRequest(k) ==
    /\ k \in DOMAIN TheRequest /\ TheRequest[k] = call.kwargs[k]
    /\ k \notin DOMAIN TheTransportKwargs

Selectors(op) ==
    IF op = "delete" THEN {"ids", "delete_all", "filter"} ELSE {"vector", "id", "queries"}

\* C10: whatever combination of selectors a Delete or a Query is given (none, one,
\* two or all three), the transport is invoked exactly once with a request that
\* carries every selector given, and no error is raised locally for the
\* combination: a call the transport answers with a record returns it, and the
\* only errors are the transport's own and that of reading a handle's
\* _data_store (Query with async_req).  Query's `queries` elements are of the kinds
\* _query_transform converts.
C10_SelectorCombinationsAreForwarded ==
    (pc = "returned" /\ call.op \in {"delete", "query"}
       /\ (call.op = "query" /\ call.args.queries # None =>
              \A i \in DOMAIN Val(call.args.queries) :
                  \/ Kind(Val(call.args.queries)[i]) \in {"QueryVector", "tuple"}
                  \/ IsIterable(Val(call.args.queries)[i]))) =>
        /\ Len(sent) = 1
        /\ sent[1].api = call.op
        /\ \A f \in Selectors(call.op) :
              call.args[f] # None =>
                  f \in DOMAIN TheRequest /\ TheRequest[f] = Carried(f, call.args[f])
        /\ outcome \in {Returned(TheResponse), Raised(TransportFailure),
                        Raised(Error("AttributeError"))}
        /\ outcome = Raised(Error("AttributeError")) => answered = Handle
        /\ Kind(answered) \in {"QueryResponse", "dict"} => outcome = Returned(TheResponse)

\* a Query given all three selectors, and answered with a record, returned it
C10_Witness ==
    /\ Ended("query")
    /\ call.args.vector # None /\ call.args.id # None /\ call.args.queries # None
    /\ Len(Val(call.args.queries)) > 0
    /\ Len(sent) = 1
    /\ {"vector", "id", "queries"} \subseteq DOMAIN TheRequest
    /\ outcome = Returned(TheResponse)

\* the fields the post-processing removes in each mode: the multi-query field in
\* unary mode, the unary-shape fields in multi-query mode
RemovedFields(unary) == IF unary THEN {"results"} ELSE {"matches", "namespace"}

\* C11: the post-processing of a Query's response record acts on the object the
\* transport handed back and returns that object: afterwards the object holds
\* exactly the fields it was handed back with, values unchanged, less 'results' in
\* unary mode (the flag `vector is not None or id` is true) and less 'matches' and
\* 'namespace' in multi-query mode; a field to remove that is absent raises
\* nothing.
C11_PostProcessingRemovesOnlyTheOtherShape ==
    (Ended("query") /\ Len(sent) = 1 /\ Kind(answered) = "QueryResponse") =>
        LET removed == RemovedFields(Truthy(UnaryQuery(call.args.vector, call.args.id)))
        IN  /\ outcome = Returned(TheResponse)
            /\ Kind(response) = Kind(answered)
            /\ DOMAIN Val(response) = (DOMAIN Val(answered)) \ removed
            /\ \A k \in DOMAIN Val(response) : Val(response)[k] = Val(answered)[k]

\* a unary Query was answered with a record that holds 'matches', 'namespace' and
\* 'usage' but no 'results', and returned it with those three fields
C11_Witness ==
    /\ Ended("query")
    /\ call.args.vector # None
    /\ Kind(answered) = "QueryResponse"
    /\ DOMAIN Val(answered) = {"matches", "namespace", "usage"}
    /\ outcome = Returned(TheResponse)
    /\ DOMAIN Val(response) = {"matches", "namespace", "usage"}

====
